---- MODULE Spec2Model ----
(***************************************************************************)
(* Model of function_app.py: the AzureExporter export engine.              *)
(*                                                                         *)
(* One run of AzureExporter.run() is a sequential program that talks to    *)
(* two outside parties: the Graph API (requests.get, resp.json) and the    *)
(* blob store (upload_blob).  Each action below is the code from one such  *)
(* interaction up to the next one; what the outside party answers is       *)
(* chosen with \E.  Python strings that the code inspects character by     *)
(* character are sequences of one-character strings.                       *)
(*                                                                         *)
(* Spec is one run, from the return of the constructor.  SpecSave is a run *)
(* from its first save_item call, over a wider set of items.  SpecApp is a *)
(* worker process: the module import, then timer activations, each with    *)
(* the constructor and a run.                                              *)
(***************************************************************************)
EXTENDS Integers, Sequences, FiniteSets, TLC

\* ------------------------------------------------------------------ bounds
\* Number of catalog entries one run walks (a window of RESOURCES).
MaxResources == 2
\* Longest chain of pages the API serves for one fetch_all_pages(url).
MaxPages == 2
\* Most elements in one page's `value` array.
MaxPageLen == 2
\* Most items the API serves in one run, over all pages of all sequences:
\* in a run where requests may be throttled or fail in transport,
MaxItemsRetry == 1
\* in a run where only uploads may fail,
MaxItemsWrite == 2
\* and in a run where neither happens.
MaxItems == 3
\* Timer activations one worker process serves.
MaxActivations == 2
\* Calendar days the worker process lives through.
MaxDays == 2
\* Most items the API serves in one run of a process that serves several.
MaxItemsApp == 1
\* Most items the API serves in a run whose first item is any of KeyItems.
MaxItemsKey == 2

\* --------------------------------------------------------- program constants
\* Mutant: one attempt more.
RETRIES_Four == 3 + 1

\* make_request: retries = 3
RETRIES == 3
\* make_request: resp.headers.get("Retry-After", 10)
DEFAULT_RETRY_AFTER == 10
\* save_item: [:60]
MAX_NAME == 60

GRAPH_API_BASE == "https://graph.microsoft.com/v1.0"
GRAPH_API_BETA == "https://graph.microsoft.com/beta"
\* The calendar: what datetime.datetime.now().strftime("%Y-%m-%d") gives on
\* the first, second, ... day the worker process lives through.
DayStr == <<"2024-01-01", "2024-01-02", "2024-01-03", "2024-01-04">>
\* Evaluated once, when the module is imported: on the process's first day.
DATE_STR == "2024-01-01"

\* The catalog, in insertion order: <<name, version>>.  The endpoint string of
\* an entry is unique to it and never starts with "http"; the name stands for it.
RESOURCES ==
  << <<"Entra_Users", "v1.0">>,
     <<"Entra_Groups", "v1.0">>,
     <<"Entra_Applications", "v1.0">>,
     <<"Entra_ConditionalAccess", "v1.0">>,
     <<"Intune_DeviceConfigs_Legacy", "beta">>,
     <<"Intune_SettingsCatalog", "beta">>,
     <<"Intune_AdminTemplates", "beta">>,
     <<"Intune_EndpointSecurity_Intents", "beta">>,
     <<"Intune_WindowsUpdateRings", "beta">>,
     <<"Intune_CompliancePolicies", "v1.0">>,
     <<"Intune_WindowsAutopilot", "v1.0">>,
     <<"Intune_MobileApps", "v1.0">>,
     <<"Intune_Scripts", "beta">>,
     <<"Intune_ShellScripts", "beta">> >>

\* Mutant: the entries are walked last to first.
Catalog_Reversed == [i \in 1..MaxResources |-> RESOURCES[4 + MaxResources - i]]

\* The entries a modelled run walks: MaxResources consecutive entries starting
\* at the last v1.0 entry before the first beta one, so both API surfaces occur.
Catalog == SubSeq(RESOURCES, 4, 3 + MaxResources)

NumRes == Len(Catalog)
\* Value of `res` while fetch_baselines runs.
Baselines == NumRes + 1

BASELINE_CATEGORY == "Intune_SecurityBaselines"

\* ------------------------------------------------------------- JSON values
\* A field of an item: absent, null, a string, or a number.  `chars` is what
\* an f-string makes of the value.
Absent == [kind |-> "absent", chars |-> <<>>]
Null == [kind |-> "null", chars |-> <<"N", "o", "n", "e">>]
Str(s) == [kind |-> "str", chars |-> s]
Num7 == [kind |-> "num", chars |-> <<"7">>]

\* dict.get(key): None when the key is absent.
Get(item, f) == IF item[f].kind = "absent" THEN Null ELSE item[f]

\* Python truthiness of a value returned by dict.get.
Truthy(v) ==
  CASE v.kind = "str" -> v.chars # <<>>
    [] v.kind = "num" -> TRUE
    [] OTHER -> FALSE

MkItem(dn, nm, id) ==
  [displayName |-> dn, name |-> nm, id |-> id, SourceTemplate |-> Absent]

NoItem == MkItem(Absent, Absent, Absent)

\* Items the modelled API may serve.  Ids are strings, as the Graph API serves
\* them; ItemA and ItemC share one.  ItemX has a shape outside the Graph schema:
\* its displayName is a number.
ItemA == MkItem(Str(<<"A", "/", "b">>), Absent, Str(<<"1">>))
ItemB == MkItem(Absent, Str(<<"A", "b">>), Str(<<"2">>))
ItemC == MkItem(Str(<<" ", "A", ":", "b">>), Str(<<"x">>), Str(<<"1">>))
ItemX == MkItem(Num7, Absent, Str(<<"3">>))
Items == {ItemA, ItemB, ItemC, ItemX}

\* ------------------------------------------------------------------- URLs
\* A URL is [base, endpoint, arg]; NoUrl is None, EmptyUrl is "".
NoUrl == [base |-> "None", endpoint |-> "", arg |-> <<>>]
EmptyUrl == [base |-> "", endpoint |-> "", arg |-> <<>>]
\* The cursor the API hands out with the k-th page of a chain: the URL of page k+1.
PageNo == <<"1", "2", "3", "4", "5", "6">>
Link(k) == [base |-> "nextLink", endpoint |-> "page", arg |-> <<PageNo[k + 1]>>]

\* `while current_url:`
UrlTruthy(u) == u # NoUrl /\ u # EmptyUrl

\* run: base_url = GRAPH_API_BETA if version == "beta" else GRAPH_API_BASE
BaseUrl(version) == IF version = "beta" THEN GRAPH_API_BETA ELSE GRAPH_API_BASE

\* run: full_url = f"{base_url}{endpoint}" (no catalog endpoint starts with http)
FullUrl(r) == [base |-> BaseUrl(r[2]), endpoint |-> r[1], arg |-> <<>>]

\* fetch_baselines: templates_url
TemplatesUrl ==
  [base |-> GRAPH_API_BETA, endpoint |-> "/deviceManagement/templates", arg |-> <<>>]

\* fetch_baselines: instances_url, with temp_id = template.get("id") formatted in
InstancesUrl(template) ==
  [base |-> GRAPH_API_BETA,
   endpoint |-> "/deviceManagement/templates/{temp_id}/migratableInstances",
   arg |-> Get(template, "id").chars]

\* Further items, for the derivation of keys: labels longer than 60
\* characters, with a blank at either end or at the cut, an item with nothing
\* but an id, one with a null id, one with an empty displayName.
RECURSIVE Rep(_, _)
Rep(c, n) == IF n = 0 THEN <<>> ELSE <<c>> \o Rep(c, n - 1)

ItemLong == MkItem(Str(<<" ">> \o Rep("a", 60) \o <<"b", "/">>), Absent, Str(<<"4">>))
ItemCut == MkItem(Str(Rep("a", 59) \o <<" ", "b">>), Absent, Str(<<"5">>))
ItemIdOnly == MkItem(Absent, Absent, Str(<<"6", "-", "x">>))
ItemNullId == MkItem(Null, Str(<<"n", ".", "_">>), Null)
ItemEmpty == MkItem(Str(<<>>), Str(<<"B", "*">>), Absent)
KeyItems ==
  {ItemA, ItemB, ItemC, ItemLong, ItemCut, ItemIdOnly, ItemNullId, ItemEmpty, NoItem}

\* ---------------------------------------------------------------- save_item
Digits == {"0", "1", "2", "3", "4", "5", "6", "7", "8", "9"}
Letters ==
  {"a", "b", "c", "d", "e", "f", "g", "h", "i", "j", "k", "l", "m", "n", "o", "p",
   "q", "r", "s", "t", "u", "v", "w", "x", "y", "z", "A", "B", "C", "D", "E", "F",
   "G", "H", "I", "J", "K", "L", "M", "N", "O", "P", "Q", "R", "S", "T", "U", "V",
   "W", "X", "Y", "Z"}

\* c.isalnum() or c in (' ', '.', '_', '-')
Keep(c) == c \in Letters \cup Digits \cup {" ", ".", "_", "-"}

RECURSIVE Filter(_)
Filter(s) ==
  IF s = <<>> THEN <<>>
  ELSE IF Keep(Head(s)) THEN <<Head(s)>> \o Filter(Tail(s))
  ELSE Filter(Tail(s))

RECURSIVE LStrip(_)
LStrip(s) == IF s # <<>> /\ Head(s) = " " THEN LStrip(Tail(s)) ELSE s

RECURSIVE RStrip(_)
RStrip(s) ==
  IF s # <<>> /\ s[Len(s)] = " " THEN RStrip(SubSeq(s, 1, Len(s) - 1)) ELSE s

\* str.strip() on a string whose only whitespace is ' '
Strip(s) == RStrip(LStrip(s))

\* s[:n]
Truncate(s, n) == IF Len(s) > n THEN SubSeq(s, 1, n) ELSE s

\* raw_name = item.get("displayName") or item.get("name") or item.get("id") or "unknown"
RawName(item) ==
  IF Truthy(Get(item, "displayName")) THEN Get(item, "displayName")
  ELSE IF Truthy(Get(item, "name")) THEN Get(item, "name")
  ELSE IF Truthy(Get(item, "id")) THEN Get(item, "id")
  ELSE Str(<<"u", "n", "k", "n", "o", "w", "n">>)

\* Mutant: the label is cut to 60 characters before the blanks are stripped.
SafeName_CutFirst(raw) == Strip(Truncate(Filter(raw.chars), MAX_NAME))

\* Mutant: the id is left out of the key.
ItemId_Noid(item) == Str(<<"n", "o", "i", "d">>)

\* item_id = item.get("id", "noid")
ItemId(item) ==
  IF item.id.kind = "absent" THEN Str(<<"n", "o", "i", "d">>) ELSE item.id

\* `for c in raw_name` raises TypeError unless raw_name is a string
SaveRaises(item) == RawName(item).kind # "str"

\* safe_name = "".join(c for c in raw_name if ...).strip()[:60]
SafeName(raw) == Truncate(Strip(Filter(raw.chars)), MAX_NAME)

\* file_name = f"{safe_name} ({item_id}).json"
FileName(item) ==
  SafeName(RawName(item)) \o <<" ", "(">> \o ItemId(item).chars
    \o <<")", ".", "j", "s", "o", "n">>

\* blob_path = f"{DATE_STR}/{category}/{file_name}"
BlobPath(category, item) ==
  [date |-> DATE_STR, category |-> category, file |-> FileName(item)]

\* json.dumps(item, indent=4)
Dumps(item) == [json |-> item]

\* upload_blob(..., overwrite=True)
Upload(st, path, data) ==
  {o \in st : o.key # path} \cup {[key |-> path, content |-> data]}

\* Mutant: the instance is saved as fetched.
Tag_Untagged(instance, tname) == instance

\* fetch_baselines: instance["_SourceTemplate"] = temp_name
Tag(instance, tname) == [instance EXCEPT !.SourceTemplate = tname]

\* -------------------------------------------------------------- make_request
NoHeader == Absent
\* Retry-After as the API may send it: missing, seconds, or an HTTP date.
Headers == {NoHeader, Str(<<"5">>), Str(<<"W", "e", "d">>)}
Statuses == {200, 400, 403, 404, 429, 500}

DigitVal(c) ==
  CASE c = "0" -> 0 [] c = "1" -> 1 [] c = "2" -> 2 [] c = "3" -> 3 [] c = "4" -> 4
    [] c = "5" -> 5 [] c = "6" -> 6 [] c = "7" -> 7 [] c = "8" -> 8 [] c = "9" -> 9

RECURSIVE Decimal(_)
Decimal(s) ==
  IF s = <<>> THEN 0 ELSE 10 * Decimal(SubSeq(s, 1, Len(s) - 1)) + DigitVal(s[Len(s)])

\* int(text) for unsigned decimal text; -1 stands for ValueError
ParseInt(s) ==
  IF s # <<>> /\ \A i \in 1..Len(s) : s[i] \in Digits THEN Decimal(s) ELSE -1

\* Mutant: the header is not read.
SleepSeconds_Default(hdr) == DEFAULT_RETRY_AFTER

\* int(resp.headers.get("Retry-After", 10)); -1 stands for ValueError
SleepSeconds(hdr) ==
  IF hdr.kind = "absent" THEN DEFAULT_RETRY_AFTER ELSE ParseInt(hdr.chars)

\* Mutant: 404 is retried like 429.
StatusAction_Retry404(status) ==
  CASE status = 200 -> "return_resp"
    [] status \in {403, 400} -> "return_none"
    [] status \in {429, 404} -> "sleep_retry"
    [] OTHER -> "return_none"

\* The if/elif chain on resp.status_code
StatusAction(status) ==
  CASE status = 200 -> "return_resp"
    [] status \in {403, 400, 404} -> "return_none"
    [] status = 429 -> "sleep_retry"
    [] OTHER -> "return_none"

\* ------------------------------------------------------------------- state
VARIABLES
  pc,        \* where the run is: "request", "returned", "save", "ended", "done", "raised";
             \* "idle" before the first activation, "setup_failed" when the
             \* constructor raised
  res,       \* run: index in Catalog of the resource being exported; Baselines after
  gens,      \* the live fetch_all_pages generators, outermost first
  retries,   \* make_request: retries
  resp,      \* fetch_all_pages: resp, "response" or "None"
  item,      \* save_item: item
  category,  \* save_item: category
  temp_id,   \* fetch_baselines: temp_id
  temp_name, \* fetch_baselines: temp_name
  store,     \* the blobs of the container: a set of [key, content]
  callLog,   \* history: the attempts of the make_request call in progress or
             \* whose result fetch_all_pages is acting on
  saved,     \* history: the save_item calls of the run, in order
  instLog,   \* history: the instances the per-template fetches yielded, in order
  firstReq,  \* history: per resource, and for the baselines, the URL of the
             \* first HTTP request made for it
  failed,    \* history: the resources whose first make_request returned None
  served,    \* history: number of items the API has served in this run
  env,       \* the outside world of this run: what may fail, how many items exist
  today,     \* the calendar day, counted from the day the process started
  certFile,  \* whether /tmp/temp_cert.pem exists
  created,   \* history: the last constructor call opened /tmp/temp_cert.pem for writing
  constructed, \* history: the last constructor call returned
  activations, \* history: number of timer activations so far
  store0     \* history: the store when the current activation began

vars ==
  <<pc, res, gens, retries, resp, item, category, temp_id, temp_name, store,
    callLog, saved, instLog, firstReq, failed, served, env,
    today, certFile, created, constructed, activations, store0>>

\* What only the timer handler and the constructor touch.
host == <<today, certFile, created, constructed, activations, store0>>

\* A generator of fetch_all_pages(arg).  url, pending, link and mode are its
\* locals (current_url, the rest of data["value"], data.get("@odata.nextLink"),
\* which yield it is suspended at); end says how it finished; fetched, pages and
\* yielded are history.
NewGen(url) ==
  [arg |-> url, url |-> url, mode |-> "list", pending |-> <<>>, link |-> NoUrl,
   end |-> "", fetched |-> <<>>, pages |-> <<>>, yielded |-> <<>>]

Top(g) == g[Len(g)]
SetTop(g, f) == [g EXCEPT ![Len(g)] = f]

\* What the code does between two interactions: the next control point.
Ctl(p, g, it, cat, tid, tname) ==
  [pc |-> p, gens |-> g, item |-> it, category |-> cat, temp_id |-> tid,
   temp_name |-> tname]

\* fetch_all_pages: `while current_url:` then self.make_request(current_url)
Loop(g, tid, tname) ==
  LET f == Top(g) IN
  IF UrlTruthy(f.url)
  THEN Ctl("request", SetTop(g, [f EXCEPT !.fetched = Append(@, f.url)]),
           NoItem, "", tid, tname)
  ELSE Ctl("ended", SetTop(g, [f EXCEPT !.end = "exhausted"]), NoItem, "", tid, tname)

\* The body of the for loop that consumes the generator on top of g, for the
\* item it yields: run's loop, fetch_baselines' outer loop or its inner loop.
Consume(g, it, rs, tid, tname) ==
  IF rs <= NumRes
  THEN Ctl("save", g, it, Catalog[rs][1], tid, tname)
  ELSE IF Len(g) = 1
  THEN Loop(Append(g, NewGen(InstancesUrl(it))), Get(it, "id"), Get(it, "displayName"))
  ELSE Ctl("save", g, Tag(it, tname), BASELINE_CATEGORY, tid, tname)

\* fetch_all_pages resumed by next(): after `yield data` it breaks; otherwise
\* it yields the next element of data["value"], or takes the cursor and loops.
Resume(g, rs, tid, tname) ==
  LET f == Top(g) IN
  IF f.mode = "single"
  THEN Ctl("ended", SetTop(g, [f EXCEPT !.end = "singleton"]), NoItem, "", tid, tname)
  ELSE IF f.pending # <<>>
  THEN Consume(SetTop(g, [f EXCEPT !.pending = Tail(@),
                                   !.yielded = Append(@, Head(f.pending))]),
               Head(f.pending), rs, tid, tname)
  ELSE Loop(SetTop(g, [f EXCEPT !.url = f.link]), tid, tname)

\* Mutant: run stops after a resource that returned nothing.
NextResource_StopOnFailure(rs, tid, tname) ==
  IF rs > 0 /\ rs \in failed
  THEN Ctl("done", <<>>, NoItem, "", tid, tname)
  ELSE IF rs < NumRes
  THEN Loop(<<NewGen(FullUrl(Catalog[rs + 1]))>>, tid, tname)
  ELSE Loop(<<NewGen(TemplatesUrl)>>, tid, tname)

\* run, once the loop over resource rs is over: the first request of the next
\* catalog entry or, after the last one, of fetch_baselines.
NextResource(rs, tid, tname) ==
  IF rs < NumRes
  THEN Loop(<<NewGen(FullUrl(Catalog[rs + 1]))>>, tid, tname)
  ELSE Loop(<<NewGen(TemplatesUrl)>>, tid, tname)

\* Entering make_request resets its local and starts a new record of attempts;
\* otherwise the record becomes log.
Goto(k, log) ==
  /\ pc' = k.pc
  /\ gens' = k.gens
  /\ item' = k.item
  /\ category' = k.category
  /\ temp_id' = k.temp_id
  /\ temp_name' = k.temp_name
  /\ retries' = IF k.pc = "request" THEN RETRIES ELSE retries
  /\ callLog' = IF k.pc = "request" THEN <<>> ELSE log

\* The outside worlds a run is checked in: one where requests can end in 429 or
\* a transport exception, one where upload_blob can fail, one where neither
\* happens; each with the number of items the tenant holds.  Statuses other
\* than 429 occur in all three.
Profiles ==
  {[retry |-> TRUE, write |-> FALSE, items |-> MaxItemsRetry],
   [retry |-> FALSE, write |-> TRUE, items |-> MaxItemsWrite],
   [retry |-> FALSE, write |-> FALSE, items |-> MaxItems]}

Init ==
  LET k == NextResource(0, Null, Null) IN
  /\ pc = k.pc
  /\ res = 1
  /\ gens = k.gens
  /\ retries = RETRIES
  /\ resp = "None"
  /\ item = NoItem
  /\ category = ""
  /\ temp_id = Null
  /\ temp_name = Null
  /\ store = {}
  /\ callLog = <<>>
  /\ saved = <<>>
  /\ instLog = <<>>
  /\ firstReq = [i \in 1..Baselines |-> NoUrl]
  /\ failed = {}
  /\ served = 0
  /\ env \in Profiles
  /\ today = 1
  /\ certFile = FALSE
  /\ created = TRUE
  /\ constructed = TRUE
  /\ activations = 1
  /\ store0 = {}

\* ------------------------------------------------------------- environment
\* What one requests.get can end in: a response, or a transport exception.
Outcomes ==
  {[kind |-> "http", status |-> s, hdr |-> NoHeader] : s \in Statuses \ {429}}
    \cup (IF env.retry
          THEN {[kind |-> "http", status |-> 429, hdr |-> h] : h \in Headers}
                 \cup {[kind |-> "exc", status |-> 0, hdr |-> NoHeader]}
          ELSE {})

SeqsUpTo(S, n) == UNION {[1..m -> S] : m \in 0..n}

Min(a, b) == IF a < b THEN a ELSE b

\* The cursors page number np of a chain may carry.
Links(np) == {NoUrl} \cup (IF np < MaxPages THEN {Link(np)} ELSE {})

\* The JSON bodies a 200 response may carry as page np, with n items left to
\* serve: {value: [...], @odata.nextLink?} or a bare object (obj).  The body of
\* a 200 response is always a JSON object, so resp.json() returns.
Bodies(np, n) ==
  {[hasValue |-> TRUE, value |-> v, obj |-> NoItem, link |-> l] :
     v \in SeqsUpTo(Items, Min(MaxPageLen, n)), l \in Links(np)}
    \cup {[hasValue |-> FALSE, value |-> <<>>, obj |-> o, link |-> l] :
            o \in (IF n > 0 THEN Items ELSE {}), l \in {NoUrl, Link(np)}}

\* Mutant: None is taken for a response.
NotResp_Never(r) == FALSE

\* `not resp`: a 200 response is truthy
NotResp(r) == r = "None"

\* Mutant: the cursor is never read.
NextLink_Ignored(data) == NoUrl

\* data.get("@odata.nextLink")
NextLink(data) == data.link

\* Mutant: every envelope is taken for a collection.
HasValue_Always(data) == TRUE

\* "value" in data
HasValue(data) == data.hasValue

\* ----------------------------------------------------------------- actions
\* instLog grows when a generator of instances (the second on the stack)
\* yields: it records the template at hand, the generator's url, the instance.
LogInstance(k) ==
  IF /\ Len(gens) = 2
     /\ Len(k.gens) = 2
     /\ Len(Top(k.gens).yielded) = Len(Top(gens).yielded) + 1
  THEN Append(instLog,
              [template |-> gens[1].yielded[Len(gens[1].yielded)],
               url |-> Top(k.gens).arg,
               instance |-> Top(k.gens).yielded[Len(Top(k.gens).yielded)]])
  ELSE instLog

\* Mutant: a transport exception ends the call at once.
Attempt_ExceptionGivesUp ==
  /\ pc = "request"
  /\ retries > 0
  /\ \E o \in Outcomes :
       LET url == Top(gens).url
           act == IF o.kind = "exc" THEN "return_none" ELSE StatusAction(o.status)
           secs == SleepSeconds(o.hdr)
           slept == IF act = "sleep_retry" /\ secs >= 0 THEN secs ELSE -1
           left == IF act = "sleep_retry" THEN retries - 1 ELSE retries
       IN
       /\ callLog' = Append(callLog, [url |-> url, kind |-> o.kind, status |-> o.status,
                                      hdr |-> o.hdr, slept |-> slept])
       /\ retries' = left
       /\ resp' = IF act = "return_resp" THEN "response" ELSE "None"
       /\ pc' = IF act \in {"return_resp", "return_none"} \/ left = 0
                THEN "returned" ELSE "request"
       /\ firstReq' = IF firstReq[res] = NoUrl
                      THEN [firstReq EXCEPT ![res] = url] ELSE firstReq
  /\ UNCHANGED <<res, gens, item, category, temp_id, temp_name, store, saved,
                 instLog, failed, served, env>>
  /\ UNCHANGED host

\* make_request: one pass of `while retries > 0`.
Attempt ==
  /\ pc = "request"
  /\ retries > 0
  /\ \E o \in Outcomes :
       LET url == Top(gens).url
           act == IF o.kind = "exc" THEN "except" ELSE StatusAction(o.status)
           secs == SleepSeconds(o.hdr)
           \* int() raising ValueError lands in the except clause: no sleep
           slept == IF act = "sleep_retry" /\ secs >= 0 THEN secs ELSE -1
           left == IF act \in {"sleep_retry", "except"} THEN retries - 1 ELSE retries
       IN
       /\ callLog' = Append(callLog, [url |-> url, kind |-> o.kind, status |-> o.status,
                                      hdr |-> o.hdr, slept |-> slept])
       /\ retries' = left
       /\ resp' = IF act = "return_resp" THEN "response" ELSE "None"
       /\ pc' = IF act \in {"return_resp", "return_none"} \/ left = 0
                THEN "returned" ELSE "request"
       /\ firstReq' = IF firstReq[res] = NoUrl
                      THEN [firstReq EXCEPT ![res] = url] ELSE firstReq
  /\ UNCHANGED <<res, gens, item, category, temp_id, temp_name, store, saved,
                 instLog, failed, served, env>>
  /\ UNCHANGED host

\* fetch_all_pages, from the return of make_request to its next yield, request or end.
FetchResume ==
  /\ pc = "returned"
  /\ LET f == Top(gens) IN
     IF NotResp(resp)
     THEN \* if not resp: break
          /\ Goto(Ctl("ended", SetTop(gens, [f EXCEPT !.end = "null"]), NoItem, "",
                      temp_id, temp_name), callLog)
          /\ failed' = IF res <= NumRes /\ f.pages = <<>> THEN failed \cup {res}
                       ELSE failed
          /\ UNCHANGED <<instLog, served>>
     ELSE \* data = resp.json()
          \E data \in Bodies(Len(f.pages) + 1, env.items - served) :
            LET k == IF HasValue(data)
                     THEN Resume(SetTop(gens, [f EXCEPT !.pages = Append(@, data),
                                                        !.pending = data.value,
                                                        !.link = NextLink(data)]),
                                 res, temp_id, temp_name)
                     ELSE Consume(SetTop(gens, [f EXCEPT !.pages = Append(@, data),
                                                         !.mode = "single",
                                                         !.yielded = Append(@, data.obj)]),
                                  data.obj, res, temp_id, temp_name)
            IN
            /\ Goto(k, <<>>)
            /\ instLog' = LogInstance(k)
            /\ served' = served + (IF HasValue(data) THEN Len(data.value) ELSE 1)
            /\ UNCHANGED failed
  /\ UNCHANGED <<res, resp, store, saved, firstReq, env>>
  /\ UNCHANGED host

\* Mutant: upload_blob without overwrite fails when the blob exists.
WriteResults_NoOverwrite ==
  IF \E o \in store : o.key = BlobPath(category, item) THEN {FALSE} ELSE {TRUE}

\* Whether the upload_blob at hand may succeed, fail.
WriteResults == {TRUE} \cup (IF env.write THEN {FALSE} ELSE {})

\* Mutant: a failing upload_blob leaves save_item as an exception.
Save_UploadRaises ==
  /\ pc = "save"
  /\ \E ok \in WriteResults :
       LET k == IF ok /\ ~SaveRaises(item)
                THEN Resume(gens, res, temp_id, temp_name)
                ELSE Ctl("raised", gens, item, category, temp_id, temp_name)
       IN
       /\ saved' = Append(saved, [category |-> category, item |-> item,
                                  ok |-> ok /\ ~SaveRaises(item)])
       /\ store' = IF ok /\ ~SaveRaises(item)
                   THEN Upload(store, BlobPath(category, item), Dumps(item))
                   ELSE store
       /\ Goto(k, callLog)
       /\ instLog' = LogInstance(k)
  /\ UNCHANGED <<res, resp, firstReq, failed, served, env>>
  /\ UNCHANGED host

\* save_item(category, item), then the consuming loop asks for the next item.
Save ==
  /\ pc = "save"
  /\ IF SaveRaises(item)
     THEN /\ saved' = Append(saved, [category |-> category, item |-> item, ok |-> FALSE])
          /\ Goto(Ctl("raised", gens, item, category, temp_id, temp_name), callLog)
          /\ UNCHANGED <<store, instLog>>
     ELSE \E ok \in WriteResults :
          LET k == Resume(gens, res, temp_id, temp_name) IN
          /\ saved' = Append(saved, [category |-> category, item |-> item, ok |-> ok])
          \* a failing upload_blob is caught and logged
          /\ store' = IF ok THEN Upload(store, BlobPath(category, item), Dumps(item))
                      ELSE store
          /\ Goto(k, callLog)
          /\ instLog' = LogInstance(k)
  /\ UNCHANGED <<res, resp, firstReq, failed, served, env>>
  /\ UNCHANGED host

\* Mutant: a None for one template's instances ends fetch_baselines.
GenReturn_NullEndsBaselines ==
  /\ pc = "ended"
  /\ LET g == SubSeq(gens, 1, Len(gens) - 1) IN
     IF res <= NumRes
     THEN /\ res' = res + 1
          /\ Goto(NextResource(res, temp_id, temp_name), <<>>)
     ELSE IF g # <<>> /\ Top(gens).end # "null"
     THEN /\ res' = res
          /\ Goto(Resume(g, res, temp_id, temp_name), <<>>)
     ELSE /\ res' = res
          /\ Goto(Ctl("done", <<>>, NoItem, "", temp_id, temp_name), <<>>)
  /\ UNCHANGED <<resp, store, saved, instLog, firstReq, failed, served, env>>
  /\ UNCHANGED host

\* A generator has finished: the for loop over it ends and its caller goes on.
GenReturn ==
  /\ pc = "ended"
  /\ LET g == SubSeq(gens, 1, Len(gens) - 1) IN
     IF res <= NumRes
     THEN \* run: the next catalog entry, or fetch_baselines()
          /\ res' = res + 1
          /\ Goto(NextResource(res, temp_id, temp_name), <<>>)
     ELSE IF g # <<>>
     THEN \* fetch_baselines: the inner loop is over, the outer one goes on
          /\ res' = res
          /\ Goto(Resume(g, res, temp_id, temp_name), <<>>)
     ELSE \* fetch_baselines and run return
          /\ res' = res
          /\ Goto(Ctl("done", g, NoItem, "", temp_id, temp_name), <<>>)
  /\ UNCHANGED <<resp, store, saved, instLog, firstReq, failed, served, env>>
  /\ UNCHANGED host

Next == Attempt \/ FetchResume \/ Save \/ GenReturn

Spec == Init /\ [][Next]_vars

\* A run at its first save_item call: the first page of the first catalog
\* resource was {value: [it]}, for any it of KeyItems.
InitSave ==
  \E it \in KeyItems :
    LET url == FullUrl(Catalog[1])
        page == [hasValue |-> TRUE, value |-> <<it>>, obj |-> NoItem, link |-> NoUrl]
    IN
    /\ pc = "save"
    /\ res = 1
    /\ gens = <<[NewGen(url) EXCEPT !.fetched = <<url>>, !.pages = <<page>>,
                                    !.yielded = <<it>>]>>
    /\ retries = RETRIES
    /\ resp = "response"
    /\ item = it
    /\ category = Catalog[1][1]
    /\ temp_id = Null
    /\ temp_name = Null
    /\ store = {}
    /\ callLog = <<>>
    /\ saved = <<>>
    /\ instLog = <<>>
    /\ firstReq = [i \in 1..Baselines |-> IF i = 1 THEN url ELSE NoUrl]
    /\ failed = {}
    /\ served = 1
    /\ env = [retry |-> FALSE, write |-> FALSE, items |-> MaxItemsKey]
    /\ today = 1
    /\ certFile = FALSE
    /\ created = TRUE
    /\ constructed = TRUE
    /\ activations = 1
    /\ store0 = {}

SpecSave == InitSave /\ [][Next]_vars

\* ------------------------------------------------------- the worker process
\* A worker process imports the module once and then serves the timer's
\* activations, each of which constructs an AzureExporter and runs it.

\* AzureExporter.__init__, given what the storage bootstrap, the Key Vault
\* read, the write of the certificate file and the token exchange do (TRUE:
\* succeed, FALSE: raise) and whether the file exists beforehand: whether the
\* constructor returns, whether it got as far as opening the file, and whether
\* the file exists afterwards.
AzureExporter(storageOk, secretOk, writeOk, authOk, cert) ==
  IF ~storageOk THEN [ok |-> FALSE, opened |-> FALSE, cert |-> cert]
  ELSE IF ~secretOk THEN [ok |-> FALSE, opened |-> FALSE, cert |-> cert]
  \* open(cert_path, "w") has created the file when f.write raises
  ELSE IF ~writeOk THEN [ok |-> FALSE, opened |-> TRUE, cert |-> TRUE]
  \* finally: os.remove(cert_path), whether get_token raised or not
  ELSE [ok |-> authOk, opened |-> TRUE, cert |-> FALSE]

\* Mutant: the handler goes on to run() whatever the constructor did.
Handler_RunAnyway(ok) == NextResource(0, Null, Null)

\* daily_backup_timer after AzureExporter(): exporter.run() begins, unless the
\* constructor raised, which ends the handler.
Handler(ok) ==
  IF ok THEN NextResource(0, Null, Null)
  ELSE Ctl("setup_failed", <<>>, NoItem, "", Null, Null)

\* The outside world of a process that serves several activations.
AppProfiles == {[retry |-> FALSE, write |-> FALSE, items |-> MaxItemsApp]}

InitApp ==
  /\ pc = "idle"
  /\ res = 1
  /\ gens = <<>>
  /\ retries = RETRIES
  /\ resp = "None"
  /\ item = NoItem
  /\ category = ""
  /\ temp_id = Null
  /\ temp_name = Null
  /\ store = {}
  /\ callLog = <<>>
  /\ saved = <<>>
  /\ instLog = <<>>
  /\ firstReq = [i \in 1..Baselines |-> NoUrl]
  /\ failed = {}
  /\ served = 0
  /\ env \in AppProfiles
  /\ today = 1
  /\ certFile = FALSE
  /\ created = FALSE
  /\ constructed = FALSE
  /\ activations = 0
  /\ store0 = {}

\* No handler is running.
Resting == pc \in {"idle", "done", "raised", "setup_failed"}

\* Midnight passes between two activations.
Tick ==
  /\ Resting
  /\ today < MaxDays
  /\ today' = today + 1
  /\ UNCHANGED <<pc, res, gens, retries, resp, item, category, temp_id, temp_name,
                 store, callLog, saved, instLog, firstReq, failed, served, env,
                 certFile, created, constructed, activations, store0>>

\* The timer fires: daily_backup_timer constructs the exporter and, if that
\* returns, enters run() up to its first request.
daily_backup_timer ==
  /\ Resting
  /\ activations < MaxActivations
  /\ \E storageOk, secretOk, writeOk, authOk \in BOOLEAN :
       LET made == AzureExporter(storageOk, secretOk, writeOk, authOk, certFile) IN
       /\ certFile' = made.cert
       /\ created' = made.opened
       /\ constructed' = made.ok
       /\ Goto(Handler(made.ok), <<>>)
  /\ res' = 1
  /\ resp' = "None"
  /\ saved' = <<>>
  /\ instLog' = <<>>
  /\ firstReq' = [i \in 1..Baselines |-> NoUrl]
  /\ failed' = {}
  /\ served' = 0
  /\ activations' = activations + 1
  /\ store0' = store
  /\ UNCHANGED <<store, env, today>>

NextApp == Tick \/ daily_backup_timer \/ Attempt \/ FetchResume \/ Save \/ GenReturn

SpecApp == InitApp /\ [][NextApp]_vars

\* ------------------------------------------------------------------ claims
\* What a page contributes to the sequence: its value array, or itself.
PageItems(page) == IF page.hasValue THEN page.value ELSE <<page.obj>>

RECURSIVE AllItems(_)
AllItems(pages) ==
  IF pages = <<>> THEN <<>> ELSE PageItems(Head(pages)) \o AllItems(Tail(pages))

\* The items of the save_item calls made under a category, in call order.
SavedUnder(cat) ==
  LET calls == SelectSeq(saved, LAMBDA e : e.category = cat)
  IN [i \in 1..Len(calls) |-> calls[i].item]

LastOf(s) == s[Len(s)]

\* Statuses and transport failures that make make_request try again.
Retried(e) == e.kind = "exc" \/ e.status = 429

\* C1: over a chain of 200 responses that all carry a value array,
\* fetch_all_pages requests url first and then each page's cursor in turn,
\* yields the concatenation of the value arrays in order, each element once,
\* and ends exactly at the page that carries no cursor.
C1_Pagination ==
  \A i \in 1..Len(gens) :
    LET f == gens[i]
        n == Len(f.pages)
    IN
    (\A p \in 1..n : f.pages[p].hasValue) =>
      /\ f.yielded \o f.pending = AllItems(f.pages)
      /\ Len(f.fetched) \in {n, n + 1}
      /\ f.fetched[1] = f.arg
      /\ \A p \in 1..n : p < Len(f.fetched) => f.fetched[p + 1] = f.pages[p].link
      /\ \A p \in 1..(n - 1) : UrlTruthy(f.pages[p].link)
      /\ f.end = "exhausted" =>
           /\ n >= 1
           /\ ~UrlTruthy(f.pages[n].link)
           /\ Len(f.fetched) = n
           /\ f.yielded = AllItems(f.pages)
      /\ (n >= 1 /\ ~UrlTruthy(f.pages[n].link)) => Len(f.fetched) = n

C1_Witness ==
  \E i \in 1..Len(gens) :
    /\ gens[i].end = "exhausted"
    /\ Len(gens[i].pages) = 2
    /\ gens[i].pages[1].value = <<ItemA, ItemB>>
    /\ gens[i].yielded = <<ItemA, ItemB, ItemC>>
    /\ gens[i].fetched = <<gens[i].arg, Link(1)>>

\* C2: one make_request call makes at most 3 requests, all to the url it was
\* called with; when every attempt ended in a 429 or a transport exception it
\* returns None right after the third, nothing is raised, and the sequence
\* that called it ends with no item added.
C2_RetryBudget ==
  LET f == Top(gens)
      allRetried == callLog # <<>> /\ \A i \in 1..Len(callLog) : Retried(callLog[i])
  IN
  /\ Len(callLog) <= 3
  /\ pc \in {"request", "returned"} =>
       \A i \in 1..Len(callLog) : callLog[i].url = LastOf(f.fetched)
  /\ (allRetried /\ Len(callLog) < 3) => pc = "request"
  /\ (allRetried /\ Len(callLog) = 3) =>
       /\ pc \in {"returned", "ended"}
       /\ resp = "None"
       /\ pc = "ended" =>
            /\ f.end = "null"
            /\ f.pending = <<>>
            /\ f.yielded = AllItems(f.pages)
            /\ Len(f.fetched) = Len(f.pages) + 1

C2_Witness ==
  /\ pc = "ended"
  /\ Top(gens).end = "null"
  /\ Len(callLog) = 3
  /\ callLog[1].kind = "exc"
  /\ callLog[2].status = 429
  /\ callLog[3].kind = "exc"
  /\ Top(gens).yielded = <<ItemA>>

\* The seconds a Retry-After header asks for: 10 without the header.
AskedSeconds(hdr) ==
  CASE hdr = NoHeader -> 10
    [] hdr = Str(<<"5">>) -> 5
    [] OTHER -> -1

\* C3 as claimed: every 429 is followed by one delay of the seconds its
\* Retry-After gives (10 without the header) and then by another request to
\* the same url; no delay happens without a 429 before it and a request after it.
C3_DelayThenReissue ==
  \A i \in 1..Len(callLog) :
    LET e == callLog[i] IN
    /\ (e.status = 429 /\ AskedSeconds(e.hdr) >= 0) =>
         /\ e.slept = AskedSeconds(e.hdr)
         /\ \/ i < Len(callLog) /\ callLog[i + 1].url = e.url
            \/ i = Len(callLog) /\ pc = "request"
    /\ e.slept >= 0 => e.status = 429

\* C3, amended: every 429 whose Retry-After is absent or a number of seconds
\* is followed by one delay of that many seconds (10 without the header), and
\* no other attempt is followed by a delay; after the first and the second
\* attempt of a call the delay is followed by another request to the same url,
\* after the third make_request returns None without another request.
C3_DelayPerThrottle ==
  \A i \in 1..Len(callLog) :
    LET e == callLog[i] IN
    /\ (e.status = 429 /\ AskedSeconds(e.hdr) >= 0) =>
         /\ e.slept = AskedSeconds(e.hdr)
         /\ i < 3 =>
              \/ i < Len(callLog) /\ callLog[i + 1].url = e.url
              \/ i = Len(callLog) /\ pc = "request"
         /\ i = 3 => (i = Len(callLog) /\ pc # "request" /\ resp = "None")
    /\ e.slept >= 0 => e.status = 429

C3_Witness ==
  /\ pc = "returned"
  /\ resp = "None"
  /\ Len(callLog) = 3
  /\ callLog[1].slept = 5
  /\ callLog[2].slept = 10
  /\ callLog[3].slept = 5

\* C4: a response with a status other than 200 and 429 ends the call at once
\* with None: it is the call's last attempt, no delay follows it, and the
\* sequence ends having taken no item from that page and asked for no other.
C4_NoRetryOnOtherStatus ==
  \A i \in 1..Len(callLog) :
    LET e == callLog[i]
        f == Top(gens)
    IN
    (e.kind = "http" /\ e.status \notin {200, 429}) =>
      /\ i = Len(callLog)
      /\ e.slept = -1
      /\ resp = "None"
      /\ pc \in {"returned", "ended"}
      /\ pc = "returned" => retries = 3 - (i - 1)
      /\ pc = "ended" =>
           /\ f.end = "null"
           /\ f.pending = <<>>
           /\ f.yielded = AllItems(f.pages)
           /\ LastOf(f.fetched) = e.url
           /\ Len(f.fetched) = Len(f.pages) + 1

C4_Witness ==
  /\ pc = "ended"
  /\ Len(callLog) = 2
  /\ callLog[1].status = 429
  /\ callLog[2].status = 404
  /\ Top(gens).end = "null"

\* C5: a 200 response whose envelope has no value field makes fetch_all_pages
\* yield the envelope as one item and end; it asks for no further page, also
\* when the envelope carries a cursor.
C5_Singleton ==
  \A i \in 1..Len(gens) :
    LET f == gens[i]
        n == Len(f.pages)
    IN
    \A p \in 1..n :
      ~f.pages[p].hasValue =>
        /\ p = n
        /\ f.yielded = AllItems(SubSeq(f.pages, 1, n - 1)) \o <<f.pages[n].obj>>
        /\ f.pending = <<>>
        /\ Len(f.fetched) = n
        /\ f.end \in {"", "singleton"}
        /\ (i = Len(gens) /\ f.end = "") => pc \in {"save", "request", "returned", "raised"}
        /\ (i = Len(gens) /\ pc \in {"request", "returned"}) => f.end = "singleton"

C5_Witness ==
  /\ pc = "ended"
  /\ Top(gens).end = "singleton"
  /\ Len(Top(gens).pages) = 1
  /\ Top(gens).pages[1].link = Link(1)
  /\ Top(gens).yielded = <<ItemB>>
  /\ Top(gens).fetched = <<Top(gens).arg>>

\* The key save_item wrote call e of `saved` under.
KeyOf(e) == BlobPath(e.category, e.item)

\* Every save_item call whose upload succeeded still has its object in the
\* store: with its own content, or with that of a later call to the same key.
StaysStored ==
  \A i \in 1..Len(saved) :
    saved[i].ok =>
      \E o \in store :
        /\ o.key = KeyOf(saved[i])
        /\ \/ o.content = Dumps(saved[i].item)
           \/ \E j \in (i + 1)..Len(saved) :
                saved[j].ok /\ KeyOf(saved[j]) = o.key /\ o.content = Dumps(saved[j].item)

\* The last n elements of s.
LastN(s, n) == SubSeq(s, Len(s) - n + 1, Len(s))

\* C6: when make_request returns None for a page after the first, the
\* sequence ends and nothing is raised: the items of the earlier pages have
\* all been yielded, and saved by the loop that consumes the sequence, their
\* objects are still in the store, and nothing else has been yielded or asked for.
C6_NullLaterPage ==
  LET f == Top(gens) IN
  /\ pc = "raised" => resp = "response"
  /\ (gens # <<>> /\ f.end = "null" /\ Len(f.pages) >= 1) =>
       /\ pc = "ended"
       /\ resp = "None"
       /\ f.yielded = AllItems(f.pages)
       /\ f.pending = <<>>
       /\ Len(f.fetched) = Len(f.pages) + 1
       /\ res <= NumRes => SavedUnder(Catalog[res][1]) = f.yielded
       /\ (res = Baselines /\ Len(gens) = 2) =>
            /\ Len(SavedUnder(BASELINE_CATEGORY)) >= Len(f.yielded)
            /\ LastN(SavedUnder(BASELINE_CATEGORY), Len(f.yielded))
                 = [j \in 1..Len(f.yielded) |-> Tag(f.yielded[j], temp_name)]
       /\ StaysStored

C6_Witness ==
  /\ pc = "ended"
  /\ res = 1
  /\ Top(gens).end = "null"
  /\ Len(Top(gens).pages) = 1
  /\ Top(gens).yielded = <<ItemA, ItemB>>
  /\ Top(gens).fetched = <<Top(gens).arg, Link(1)>>
  /\ Cardinality(store) = 2

\* The URL the first request for catalog entry i has to go to.
ExpectedFirst(i) ==
  [base |-> IF Catalog[i][2] = "beta" THEN "https://graph.microsoft.com/beta"
            ELSE "https://graph.microsoft.com/v1.0",
   endpoint |-> Catalog[i][1],
   arg |-> <<>>]

\* C7 as claimed: when a run is over, by run() returning or by an exception
\* leaving it, every catalog resource has had a request, and the first request
\* for it went to the beta base exactly when its version is beta.
C7_EveryResourceRequested ==
  pc \in {"done", "raised"} => \A i \in 1..NumRes : firstReq[i] = ExpectedFirst(i)

\* The item save_item is being called with, if the run is at such a call.
InHand == IF pc = "save" THEN <<item>> ELSE <<>>

\* C8: after a catalog resource whose first request came back as None, so
\* that nothing was saved for it, the run goes on: each later resource and the
\* baselines get their first request, and every item of the pages the API
\* returns for them is yielded and passed to save_item.
C8_FailureIsolation ==
  \A i \in failed :
    /\ SavedUnder(Catalog[i][1]) = <<>>
    /\ res > i \/ (res = i /\ pc = "ended" /\ Top(gens).end = "null")
    /\ \A j \in (i + 1)..Baselines :
         /\ (j < res \/ pc = "done") => firstReq[j] # NoUrl
         /\ (j = res /\ firstReq[j] = NoUrl) => (pc = "request" /\ callLog = <<>>)
    /\ (res > i /\ gens # <<>>) =>
         LET f == Top(gens) IN
         /\ f.yielded \o f.pending = AllItems(f.pages)
         /\ res <= NumRes => SavedUnder(Catalog[res][1]) \o InHand = f.yielded
         /\ (res = Baselines /\ Len(gens) = 2) =>
              LET all == SavedUnder(BASELINE_CATEGORY) \o InHand IN
              /\ Len(all) >= Len(f.yielded)
              /\ LastN(all, Len(f.yielded))
                   = [j \in 1..Len(f.yielded) |-> Tag(f.yielded[j], temp_name)]

C8_Witness ==
  /\ pc = "done"
  /\ failed = {1}
  /\ SavedUnder(Catalog[2][1]) = <<ItemA>>
  /\ SavedUnder(BASELINE_CATEGORY) = <<Tag(ItemB, Null)>>
  /\ Cardinality(store) = 2

\* C9: the save_item calls under Intune_SecurityBaselines are, in order, the
\* instances the per-template fetches yielded, once each, each carrying in
\* _SourceTemplate the displayName of the template whose id is in the url it
\* was fetched from; the templates are not saved, and fetch_baselines raises
\* only inside the save of an instance.
C9_BaselinesTagged ==
  /\ SavedUnder(BASELINE_CATEGORY) \o (IF category = BASELINE_CATEGORY THEN InHand ELSE <<>>)
       = [i \in 1..Len(instLog) |->
            [instLog[i].instance EXCEPT
               !.SourceTemplate = Get(instLog[i].template, "displayName")]]
  /\ \A i \in 1..Len(instLog) :
       /\ instLog[i].url.base = "https://graph.microsoft.com/beta"
       /\ instLog[i].url.arg = Get(instLog[i].template, "id").chars
       /\ instLog[i].instance.SourceTemplate = Absent
  /\ Len(gens) = 2 =>
       LET f == gens[2] IN
       /\ f.yielded \o f.pending = AllItems(f.pages)
       /\ Len(instLog) >= Len(f.yielded)
       /\ \A j \in 1..Len(f.yielded) :
            LET e == instLog[Len(instLog) - Len(f.yielded) + j] IN
            /\ e.instance = f.yielded[j]
            /\ e.template = LastOf(gens[1].yielded)
            /\ e.url = f.arg
  /\ res < Baselines => instLog = <<>>
  /\ (res = Baselines /\ pc = "raised") => (instLog # <<>> /\ ~LastOf(saved).ok)

C9_Witness ==
  /\ pc = "done"
  /\ served = 3
  /\ Len(saved) = 1
  /\ Len(instLog) = 1
  /\ instLog[1].template = ItemA
  /\ saved[1].category = BASELINE_CATEGORY
  /\ saved[1].item = [ItemB EXCEPT !.SourceTemplate = Str(<<"A", "/", "b">>)]
  /\ Cardinality(store) = 1

\* The objects the store holds under the prefix {date}/{cat}/.
Under(date, cat) == {o \in store : o.key.date = date /\ o.key.category = cat}

C11_RunDatePrefix ==
  ~Resting =>
    \A i \in 1..Len(saved) : saved[i].ok => KeyOf(saved[i]).date = DayStr[today]

\* C12 as claimed: after a successful setup no exception leaves run(),
\* whatever the API returns and whichever uploads fail.
C12_RunNeverRaises == pc # "raised"

\* The characters a label keeps.
Allowed == Letters \cup Digits \cup {" ", ".", "_", "-"}

\* s without the characters that are not allowed.
Cleaned(s) == SelectSeq(s, LAMBDA c : c \in Allowed)

\* s without its leading and trailing blanks.
Trimmed(s) ==
  LET solid == {i \in 1..Len(s) : s[i] # " "} IN
  IF solid = {} THEN <<>>
  ELSE SubSeq(s, CHOOSE i \in solid : \A j \in solid : i <= j,
                 CHOOSE i \in solid : \A j \in solid : i >= j)

\* The first 60 characters of s.
First60(s) == [i \in 1..(IF Len(s) < 60 THEN Len(s) ELSE 60) |-> s[i]]

\* The text the label is made from: displayName, else name, else id, else
\* the literal unknown; a field that is missing, null or empty is passed over.
Usable(v) == v.kind = "str" /\ v.chars # <<>>
LabelText(it) ==
  IF Usable(it.displayName) THEN it.displayName.chars
  ELSE IF Usable(it.name) THEN it.name.chars
  ELSE IF Usable(it.id) THEN it.id.chars
  ELSE <<"u", "n", "k", "n", "o", "w", "n">>

\* The key with a given label, the id being noid for an item without an id field.
KeyWith(cat, it, label, idText) ==
  [date |-> DayStr[today], category |-> cat,
   file |-> label \o <<" ", "(">> \o idText \o <<")", ".", "j", "s", "o", "n">>]

Standing == {i \in 1..Len(saved) :
               /\ saved[i].ok
               /\ \A j \in (i + 1)..Len(saved) :
                    saved[j].ok => KeyOf(saved[j]) # KeyOf(saved[i])}

\* C14: a save_item call whose upload fails does not end the run; the store
\* holds exactly what the successful uploads put there, so the failed item is
\* absent and earlier objects are as they were; and the items yielded after it
\* are passed to save_item as before.
C14_WriteFailureCaught ==
  /\ \A i \in 1..Len(saved) :
       (~saved[i].ok /\ ~SaveRaises(saved[i].item)) =>
         /\ i = Len(saved) => pc # "raised"
         /\ gens # <<>> =>
              LET f == Top(gens) IN
              /\ f.yielded \o f.pending = AllItems(f.pages)
              /\ res <= NumRes => SavedUnder(Catalog[res][1]) \o InHand = f.yielded
              /\ (res = Baselines /\ Len(gens) = 2) =>
                   LastN(SavedUnder(BASELINE_CATEGORY) \o InHand, Len(f.yielded))
                     = [j \in 1..Len(f.yielded) |->
                          [f.yielded[j] EXCEPT !.SourceTemplate = temp_name]]
  /\ store = {[key |-> KeyOf(saved[i]), content |-> Dumps(saved[i].item)] : i \in Standing}

C14_Witness ==
  /\ Len(saved) = 2
  /\ ~saved[1].ok
  /\ saved[1].item = ItemA
  /\ saved[2].ok
  /\ saved[2].item = ItemB
  /\ saved[2].category = saved[1].category
  /\ Cardinality(store) = 1

\* C15: when save_item is called with an item it has saved under the same
\* category before in the run, the call does not fail for the object being
\* there (it fails only where uploads can fail at all); when it succeeds, the
\* store holds one object at the item's key, with the item's text, and the
\* objects at all other keys are as before the call.
C15_IdempotentSave ==
  [][ ( /\ pc = "save"
        /\ saved' # saved
        /\ \E i \in 1..Len(saved) :
             saved[i] = [category |-> category, item |-> item, ok |-> TRUE] ) =>
      LET key == [date |-> DATE_STR, category |-> category, file |-> FileName(item)] IN
      /\ pc' # "raised"
      /\ ~env.write => LastOf(saved').ok
      /\ LastOf(saved').ok =>
           /\ {o \in store' : o.key = key} = {[key |-> key, content |-> Dumps(item)]}
           /\ {o \in store' : o.key # key} = {o \in store : o.key # key}
      /\ ~LastOf(saved').ok => store' = store
    ]_vars

C15_Witness ==
  /\ Len(saved) = 3
  /\ saved[1] = [category |-> Catalog[1][1], item |-> ItemA, ok |-> TRUE]
  /\ saved[2] = [category |-> Catalog[1][1], item |-> ItemB, ok |-> TRUE]
  /\ saved[3] = saved[1]
  /\ store = {[key |-> KeyOf(saved[1]), content |-> Dumps(ItemA)],
              [key |-> KeyOf(saved[2]), content |-> Dumps(ItemB)]}

\* C16 as claimed: once a constructor call has created the certificate file,
\* the file is gone when that call is over, whether it returned or raised.
C16_CertRemoved == created => ~certFile

\* C17: when the constructor has raised, the activation is over: until the
\* timer fires again no request is made for any catalog resource or for the
\* baselines, save_item is not called, the store is as the activation found
\* it, and the constructor is not called again.
C17_SetupFailureAborts ==
  (activations > 0 /\ ~constructed) =>
    /\ pc = "setup_failed"
    /\ gens = <<>>
    /\ callLog = <<>>
    /\ \A i \in 1..Baselines : firstReq[i] = NoUrl
    /\ saved = <<>>
    /\ store = store0

C17_Witness ==
  /\ activations = 2
  /\ ~constructed
  /\ pc = "setup_failed"
  /\ store # {}
  /\ store = store0

\* The place of a category, or of the endpoint standing for it, in the order
\* of export: its index in RESOURCES; the baselines come after all of them.
Place(name) ==
  IF \E i \in 1..Len(RESOURCES) : RESOURCES[i][1] = name
  THEN CHOOSE i \in 1..Len(RESOURCES) : RESOURCES[i][1] = name
  ELSE Len(RESOURCES) + 1

\* C18: requests and saves follow the catalog's order: nothing has been
\* requested or saved for a resource after the one at hand, the first requests
\* and the saves made so far are in catalog order with the baselines last, and
\* a request of a resource's sequence is made only when every item of the
\* pages received so far has been saved.
C18_Sequential ==
  /\ \A j \in 1..Baselines : j > res => firstReq[j] = NoUrl
  /\ \A j \in 1..Baselines : (j < res \/ pc = "done") => firstReq[j] # NoUrl
  /\ \A i, j \in 1..Baselines :
       (i < j /\ firstReq[j] # NoUrl) => Place(firstReq[i].endpoint) < Place(firstReq[j].endpoint)
  /\ \A a, b \in 1..Len(saved) :
       a < b => Place(saved[a].category) <= Place(saved[b].category)
  /\ \A a \in 1..Len(saved) :
       IF res <= NumRes THEN Place(saved[a].category) <= Place(Catalog[res][1])
       ELSE TRUE
  /\ (res <= NumRes /\ pc \in {"request", "returned"}) =>
       LET f == gens[1] IN
       /\ Len(gens) = 1
       /\ f.pending = <<>>
       /\ Len(f.fetched) = Len(f.pages) + 1
       /\ SavedUnder(Catalog[res][1]) = AllItems(f.pages)
  /\ (res = Baselines /\ gens # <<>>) => gens[1].arg.endpoint = "/deviceManagement/templates"
  /\ (res <= NumRes /\ gens # <<>>) => gens[1].arg.endpoint = Catalog[res][1]

C18_Witness ==
  /\ res = Baselines
  /\ pc = "request"
  /\ firstReq[Baselines] = NoUrl
  /\ Len(saved) = 3
  /\ saved[1].category = RESOURCES[4][1]
  /\ saved[2].category = RESOURCES[4][1]
  /\ saved[3].category = RESOURCES[5][1]

IdText(t) == IF t.id.kind = "absent" THEN <<"N", "o", "n", "e">> ELSE t.id.chars

\* C20: in fetch_baselines the sequence of templates stands still while the
\* instances of a template are fetched and saved: it yields a template only
\* to start that template's instance fetch, and moves on, to its next template
\* or its next page, only when that fetch has ended and nothing is left to
\* save; a None for a template's instances ends that fetch alone, and the
\* next template's fetch, or the next step of the template sequence, follows.
C20_LazyBaselines ==
  [][ res = Baselines =>
      /\ (Len(gens) = 2 /\ Len(gens') = 2 /\ pc # "ended") => gens'[1] = gens[1]
      /\ (Len(gens) = 2 /\ pc \in {"request", "returned", "save"}) => Len(gens') = 2
      /\ (Len(gens) = 1 /\ gens' # <<>>) =>
           /\ pc # "save"
           /\ Len(gens'[1].yielded) \in {Len(gens[1].yielded), Len(gens[1].yielded) + 1}
           /\ Len(gens'[1].yielded) > Len(gens[1].yielded) =>
                /\ Len(gens') = 2
                /\ pc' = "request"
                /\ gens'[2].arg.arg = IdText(LastOf(gens'[1].yielded))
                /\ gens'[2].fetched = <<gens'[2].arg>>
                /\ gens'[2].pages = <<>>
           /\ Len(gens'[1].fetched) > Len(gens[1].fetched) =>
                /\ Len(gens') = 1
                /\ gens[1].pending = <<>>
                /\ gens'[1].yielded = AllItems(gens[1].pages)
      /\ (Len(gens) = 2 /\ pc = "ended") =>
           LET out == gens[1] IN
           /\ pc' \in {"request", "ended"}
           /\ saved' = saved
           /\ (out.mode = "list" /\ out.pending # <<>>) =>
                /\ Len(gens') = 2
                /\ pc' = "request"
                /\ gens'[1].yielded = Append(out.yielded, Head(out.pending))
                /\ gens'[2].arg.arg = IdText(Head(out.pending))
           /\ (out.mode = "list" /\ out.pending = <<>>) =>
                /\ Len(gens') = 1
                /\ gens'[1].yielded = out.yielded
                /\ pc' = "request" => LastOf(gens'[1].fetched) = out.link
           /\ out.mode = "single" => (Len(gens') = 1 /\ pc' = "ended")
    ]_vars

C20_Witness ==
  /\ res = Baselines
  /\ pc = "ended"
  /\ Len(gens) = 2
  /\ gens[2].end = "null"
  /\ gens[1].yielded = <<ItemA>>
  /\ gens[1].pending = <<ItemB>>
  /\ gens[1].link = Link(1)

====
